---------------------------- MODULE Spec2Model ----------------------------
(***************************************************************************)
(* State-machine model of the two reporting scripts of the repository:     *)
(*   quick_dashboard.py  (metrics pipeline,  specification Spec)           *)
(*   generate_erd.py     (diagram pipeline,  specification SpecErd)        *)
(* The database server and the Graphviz renderer are the environment: what *)
(* they answer is drawn from bounded sets in Init.                         *)
(***************************************************************************)
EXTENDS Integers, Sequences, FiniteSets, TLC

VARIABLES
    db,          \* the database the dashboard talks to (environment, fixed per run)
    pc,          \* position of quick_dashboard.py's __main__ / generate_dashboard
    qi,          \* index in Queries of the next execute_query call
    conn,        \* "none" | "open" | "closed": the psycopg2 connection object
    txn,         \* "idle" | "intrans" | "inerror": the connection's transaction status
    attempts,    \* number of psycopg2.connect calls made
    closes,      \* number of conn.close() calls made
    executed,    \* sequence of [q, connState, got]: every cur.execute issued
    out,         \* stdout of quick_dashboard.py, one record per print
    exitCode,    \* <<>> while running, <<n>> once the process has exited with n
    env,         \* the renderer environment of generate_erd.py (fixed per run)
    schema_data, \* argument rows of generate_dot_content
    dot_content, \* <<>> or <<lines>>: value returned by generate_dot_content
    epc,         \* position of generate_erd.py's main
    files,       \* function file name -> <<>> (absent) or <<content>>
    calls,       \* sequence of subprocess.run argument lists issued
    eout,        \* stdout of generate_erd.py
    eexit        \* <<>> while running, <<n>> once main has exited with n

dashVars == <<db, pc, qi, conn, txn, attempts, closes, executed, out, exitCode>>
erdVars  == <<env, schema_data, dot_content, epc, files, calls, eout, eexit>>
vars     == <<db, pc, qi, conn, txn, attempts, closes, executed, out, exitCode,
              env, schema_data, dot_content, epc, files, calls, eout, eexit>>

(***************************************************************************)
(* Nullable values: SQL NULL / Python None is <<>>, a value v is <<v>>.    *)
(***************************************************************************)
Null == <<>>
Some(v) == <<v>>
IsNull(x) == x = <<>>
Val(x) == x[1]

\* The sequences over S of length 0..n.
SeqsUpTo(S, n) == UNION {[1..k -> S] : k \in 0..n}


(***************************************************************************)
(* Rounding to a fixed number of decimals (Python's f"{x:.2f}" of a float  *)
(* that came from a Decimal): the nearest integer multiple; on an exact    *)
(* tie the binary representation of the float decides, so either neighbour *)
(* is a possible outcome.  n >= 0, d > 0.                                  *)
(***************************************************************************)
RoundDiv(n, d) ==
    IF 2 * (n % d) < d THEN {n \div d}
    ELSE IF 2 * (n % d) > d THEN {(n \div d) + 1}
    ELSE {n \div d, (n \div d) + 1}

\* PostgreSQL ROUND(x, 2) of a numeric: exact, ties away from zero.
SqlRound(n, d) == (2 * n + d) \div (2 * d)

(***************************************************************************)
(*                    quick_dashboard.py : the database                    *)
(***************************************************************************)

\* Bounds of the explored databases.
MaxSubs == 2
MaxUsers == 3
MaxRows == 1

\* The descriptions passed to execute_query, in the order generate_dashboard calls it.
Queries ==
    << "Active users", "Paid subscribers", "Current MRR", "Conversion rate",
       "Plan revenue", "User growth", "Channel performance",
       "Recent signups", "Recent upgrades", "Recent churn", "Projects created" >>

QuerySet == {Queries[i] : i \in 1..Len(Queries)}

\* The queries that select over a trailing time window counted from CURRENT_DATE;
\* the database answers them with a count of its own.
WindowCounts == {"Recent signups", "Recent upgrades", "Recent churn", "Projects created"}

FreePlan == 1
PaidPlan == FreePlan + 1
AnnualDivisor == 12
ArrMultiplier == 12
MinSignups == 5

Sub(u, p, st, cyc, m) ==
    [user_id |-> u, plan_id |-> p, status |-> st, billing_cycle |-> cyc, mrr |-> m]

PlanRow(name, n, rev) == [plan |-> name, transactions |-> n, revenue |-> rev]
GrowthRow(m, n, a) == [month |-> m, new_users |-> n, activated_users |-> a]
\* conversion_rate is ROUND(paid * 100.0 / COUNT(u.id), 2), in hundredths of a percent.
ChannelRow(ch, n, p) ==
    [signup_channel |-> ch, total_signups |-> n, paid_conversions |-> p,
     conversion_rate |-> SqlRound(p * 100 * 100, n)]

DefaultDb ==
    [connOk      |-> TRUE,
     fails       |-> {},
     users       |-> <<[status |-> "active"], [status |-> "active"]>>,
     subs        |-> <<Sub(1, PaidPlan, "active", Some("monthly"), 2900)>>,
     planRows    |-> <<PlanRow(Some("pro"), 1, Some(2900))>>,
     growthRows  |-> <<GrowthRow(Some("2024-01"), 2, 1)>>,
     channelRows |-> <<ChannelRow(Some("organic_search"), MinSignups, 1)>>,
     counts      |-> [q \in WindowCounts |-> 1]]

\* Any subset of the named queries may be rejected by the server; the connection
\* itself may be refused.
FailureDbs ==
    {[DefaultDb EXCEPT !.fails = F] : F \in SUBSET QuerySet}
        \cup {[DefaultDb EXCEPT !.connOk = FALSE]}

\* Subscription tables that vary what the Current MRR query reads.
RevenueSubs ==
    {Sub(1, PaidPlan, st, cyc, m) :
        st \in {"active", "cancelled"},
        cyc \in {Some("monthly"), Some("annual"), Null},
        m \in {1000, 1206}}

RevenueDbs ==
    {[DefaultDb EXCEPT !.subs = s, !.fails = F] :
        s \in SeqsUpTo(RevenueSubs, MaxSubs),
        F \in {{}, {"Current MRR"}, {"Active users"}}}

\* User and subscription tables that vary what the Conversion rate query reads.
ConversionSubs(n) ==
    {Sub(u, ps[1], ps[2], Some("monthly"), 1000) :
        u \in 1..n,
        ps \in {<<FreePlan, "active">>, <<PaidPlan, "active">>, <<PaidPlan, "cancelled">>}}

ConversionDbs ==
    {[DefaultDb EXCEPT !.users = [i \in 1..n |-> [status |-> "active"]],
                       !.subs = s, !.fails = F] :
        n \in 0..MaxUsers, s \in SeqsUpTo(ConversionSubs(MaxUsers), MaxSubs),
        F \in {{}, {"Conversion rate"}}}

\* Every subscription's user_id references a row of users (foreign key).
ForeignKeysHold(d) == \A i \in 1..Len(d.subs) : d.subs[i].user_id \in 1..Len(d.users)

UserDbs ==
    {[DefaultDb EXCEPT !.users = u, !.subs = <<>>] :
        u \in SeqsUpTo([status : {"active", "inactive"}], MaxUsers)}

\* Result sets of the three listing queries; a grouping column may be NULL.
PlanRowSet ==
    {PlanRow(Some("pro"), 2, Some(5800)), PlanRow(Null, 1, Some(2900)),
     PlanRow(Some("team"), 1, Null)}
GrowthRowSet == {GrowthRow(Some("2024-01"), 2, 1), GrowthRow(Some("2024-02"), 1, 1)}
ChannelRowSet ==
    {ChannelRow(Some("organic_search"), MinSignups, 1), ChannelRow(Null, MinSignups + 1, 0)}

RowDbs ==
    {[DefaultDb EXCEPT !.planRows = p, !.growthRows = g, !.channelRows = c, !.fails = F] :
        p \in SeqsUpTo(PlanRowSet, MaxRows), g \in SeqsUpTo(GrowthRowSet, MaxRows),
        c \in SeqsUpTo(ChannelRowSet, MaxRows),
        F \in {{}, {"Plan revenue"}, {"Active users"}}}

Databases ==
    {d \in FailureDbs \cup RevenueDbs \cup ConversionDbs \cup UserDbs \cup RowDbs :
        ForeignKeysHold(d)}

(***************************************************************************)
(*             quick_dashboard.py : what the SQL text computes             *)
(***************************************************************************)
IsActive(r) == r.status = "active"

\* SELECT COUNT(*) FROM users WHERE status = 'active'
SqlActiveUsers(d) == Len(SelectSeq(d.users, IsActive))

IsActivePaid(s) == s.status = "active" /\ s.plan_id # FreePlan

\* SELECT COUNT(*) FROM subscriptions WHERE status = 'active' AND plan_id != 1
SqlPaidSubscribers(d) == Len(SelectSeq(d.subs, IsActivePaid))

\* Variant of MrrContribution without the division of annual amounts.
MrrContributionUnnormalised(s) == s.mrr * AnnualDivisor

\* CASE WHEN billing_cycle = 'monthly' THEN mrr WHEN billing_cycle = 'annual'
\* THEN mrr / 12 ELSE mrr END, as a numerator over AnnualDivisor (cents).
MrrContribution(s) ==
    IF s.billing_cycle = Some("monthly") THEN s.mrr * AnnualDivisor
    ELSE IF s.billing_cycle = Some("annual") THEN s.mrr
    ELSE s.mrr * AnnualDivisor

RECURSIVE SumContributions(_)
SumContributions(subs) ==
    IF subs = <<>> THEN 0
    ELSE MrrContribution(Head(subs)) + SumContributions(Tail(subs))

\* SELECT SUM(CASE ...) FROM subscriptions WHERE status = 'active':
\* NULL over no rows, else the rational n / AnnualDivisor cents.
SqlTotalMrr(d) ==
    LET act == SelectSeq(d.subs, IsActive)
    IN  IF act = <<>> THEN Null
        ELSE Some([n |-> SumContributions(act), d |-> AnnualDivisor])

\* COUNT(DISTINCT u.id) over users LEFT JOIN active subscriptions.
SqlTotalUsers(d) == Len(d.users)

\* COUNT(DISTINCT CASE WHEN s.plan_id != 1 THEN u.id END)
SqlPaidUsers(d) ==
    Cardinality({u \in 1..Len(d.users) :
        \E i \in 1..Len(d.subs) : d.subs[i].user_id = u /\ IsActivePaid(d.subs[i])})

\* NULLIF(total_users, 0)
NullIf(x, y) == IF x = y THEN Null ELSE Some(x)

\* Variant of SqlConversionRate that yields a fraction instead of a percentage.
SqlConversionRateAsFraction(d) ==
    LET den == NullIf(SqlTotalUsers(d), 0)
    IN  IF IsNull(den) THEN Null
        ELSE Some([n |-> SqlPaidUsers(d), d |-> Val(den)])

\* paid_users * 100.0 / NULLIF(total_users, 0): NULL when the divisor is NULL.
SqlConversionRate(d) ==
    LET den == NullIf(SqlTotalUsers(d), 0)
    IN  IF IsNull(den) THEN Null
        ELSE Some([n |-> SqlPaidUsers(d) * 100, d |-> Val(den)])

(***************************************************************************)
(*                 quick_dashboard.py : formatting helpers                 *)
(***************************************************************************)
Zero == [n |-> 0, d |-> 1]
Exact(c) == [n |-> c, d |-> 1]

\* Python truthiness of a fetched numeric column: None and Decimal zero are falsy.
Truthy(x) == ~IsNull(x) /\ Val(x).n # 0

\* format_currency: the possible renderings, in cents, of a nullable amount
\* given as a rational number of cents.
format_currency(amount) ==
    IF IsNull(amount) THEN {0} ELSE RoundDiv(Val(amount).n, Val(amount).d)

\* format_percentage: the possible renderings, in hundredths of a percent, of a
\* nullable rational percentage.
format_percentage(value) ==
    IF IsNull(value) THEN {0} ELSE RoundDiv(Val(value).n * 100, Val(value).d)

\* format_number: the integer rendered with thousands separators; None renders "0".
format_number(value) == IF IsNull(value) THEN 0 ELSE Val(value)

\* print_header(title) and print_metric(label, value)
Header(title) == [k |-> "header", title |-> title]
Metric(label, value) == [k |-> "metric", label |-> label, value |-> value]

(***************************************************************************)
(*                   quick_dashboard.py : execute_query                    *)
(* The connection is opened with psycopg2's defaults (autocommit off), so  *)
(* the first statement opens a transaction; the server rejects every       *)
(* statement of a transaction in which a statement has failed, until a     *)
(* rollback, and execute_query issues none.                                *)
(***************************************************************************)
\* cur.execute(query) raises psycopg2.Error.
QueryRaises(q) == txn = "inerror" \/ q \in db.fails

\* The transaction status cur.execute(query) leaves behind.
TxnAfter(q) == IF QueryRaises(q) THEN "inerror" ELSE "intrans"

\* Variant of OnQueryError that prints the diagnostic and re-raises.
OnQueryErrorReraise(q) == [propagate |-> TRUE, lines |-> <<[k |-> "query_failed", q |-> q]>>]

\* except psycopg2.Error: print the diagnostic naming the query, return [].
\* propagate: whether the error leaves execute_query.
OnQueryError(q) == [propagate |-> FALSE, lines |-> <<[k |-> "query_failed", q |-> q]>>]

\* execute_query(conn, query, description): [rows, lines printed, raised].
\* rows is what the statement returns when the server accepts it.
execute_query(q, rows) ==
    IF QueryRaises(q)
    THEN [rows |-> <<>>, lines |-> OnQueryError(q).lines, raised |-> OnQueryError(q).propagate]
    ELSE [rows |-> rows, lines |-> <<>>, raised |-> FALSE]

\* One row holding one column, as the aggregate queries return.
OneRow(col, v) == <<[c \in {col} |-> v]>>

(***************************************************************************)
(*           quick_dashboard.py : the sections of the report               *)
(* Each gives the possible outcomes [lines, raised] of formatting what     *)
(* execute_query returned: the lines printed, and whether an exception     *)
(* other than psycopg2.Error was raised while doing so.                    *)
(***************************************************************************)
\* print_metric(label, format_number(rows[0]['count'] if rows else 0))
CountSection(label, rows) ==
    {[lines |-> <<Metric(label, format_number(Some(IF rows # <<>> THEN rows[1].count ELSE 0)))>>,
      raised |-> FALSE]}

\* mrr_value = mrr[0]['total_mrr'] if mrr and mrr[0]['total_mrr'] else 0
MrrValue(rows) ==
    IF rows # <<>> /\ Truthy(rows[1].total_mrr) THEN Val(rows[1].total_mrr) ELSE Zero

\* float(mrr_value) * 12
ArrValue(v) == [n |-> v.n * ArrMultiplier, d |-> v.d]

MrrSection(rows) ==
    {[lines |-> <<Metric("Monthly Recurring Revenue", m), Metric("Annual Recurring Revenue", a)>>,
      raised |-> FALSE] :
        m \in format_currency(Some(MrrValue(rows))),
        a \in format_currency(Some(ArrValue(MrrValue(rows))))}

\* conv_rate = conversion[0]['conversion_rate'] if conversion and ... else 0
ConvRate(rows) ==
    IF rows # <<>> /\ Truthy(rows[1].conversion_rate)
    THEN Val(rows[1].conversion_rate) ELSE Zero

ConversionSection(rows) ==
    {[lines |-> <<Metric("Free-to-Paid Conversion", r)>>, raised |-> FALSE] :
        r \in format_percentage(Some(ConvRate(rows)))}

\* One iteration of a loop over rows followed by the rest of the loop: an
\* exception in the body ends the loop.
AndThen(b, rest) ==
    IF b.raised THEN {b}
    ELSE {[lines |-> b.lines \o r.lines, raised |-> r.raised] : r \in rest}

NoRows == {[lines |-> <<>>, raised |-> FALSE]}

\* row['plan'].title() raises AttributeError on None.
PlanBody(row) ==
    IF IsNull(row.plan) THEN {[lines |-> <<>>, raised |-> TRUE]}
    ELSE {[lines |-> <<[k |-> "plan", plan |-> <<"title", Val(row.plan)>>, revenue |-> c,
                       transactions |-> format_number(Some(row.transactions))]>>,
           raised |-> FALSE] :
            c \in format_currency(IF IsNull(row.revenue) THEN Null ELSE Some(Exact(Val(row.revenue))))}

\* row['month'].strftime('%Y-%m') raises AttributeError on None;
\* activation_rate is printed with one decimal (tenths of a percent).
GrowthBody(row) ==
    IF IsNull(row.month) THEN {[lines |-> <<>>, raised |-> TRUE]}
    ELSE {[lines |-> <<[k |-> "growth", month |-> Val(row.month),
                       new_users |-> format_number(Some(row.new_users)),
                       activated |-> format_number(Some(row.activated_users)),
                       rate |-> t]>>,
           raised |-> FALSE] :
            t \in IF row.new_users > 0
                  THEN RoundDiv(row.activated_users * 100 * 10, row.new_users) ELSE {0}}

\* row['signup_channel'].replace('_', ' ').title() raises AttributeError on None.
ChannelBody(row) ==
    IF IsNull(row.signup_channel) THEN {[lines |-> <<>>, raised |-> TRUE]}
    ELSE {[lines |-> <<[k |-> "channel", channel |-> <<"title", Val(row.signup_channel)>>,
                       signups |-> format_number(Some(row.total_signups)),
                       conversions |-> format_number(Some(row.paid_conversions)),
                       rate |-> r]>>,
           raised |-> FALSE] :
            r \in format_percentage(Some([n |-> row.conversion_rate, d |-> 100]))}

\* for row in plan_revenue: ...
RECURSIVE PlanLines(_)
PlanLines(rows) ==
    IF rows = <<>> THEN NoRows
    ELSE UNION {AndThen(b, PlanLines(Tail(rows))) : b \in PlanBody(Head(rows))}

\* for row in growth_data: ...
RECURSIVE GrowthLines(_)
GrowthLines(rows) ==
    IF rows = <<>> THEN NoRows
    ELSE UNION {AndThen(b, GrowthLines(Tail(rows))) : b \in GrowthBody(Head(rows))}

\* for row in channel_data: ...
RECURSIVE ChannelLines(_)
ChannelLines(rows) ==
    IF rows = <<>> THEN NoRows
    ELSE UNION {AndThen(b, ChannelLines(Tail(rows))) : b \in ChannelBody(Head(rows))}

(***************************************************************************)
(*               quick_dashboard.py : __main__ and its steps               *)
(***************************************************************************)
\* Variant of TopLevel whose generic handler prints and ends with status 0.
TopLevelExitZero(exc) ==
    IF exc = "KeyboardInterrupt" THEN [lines |-> <<[k |-> "cancelled"]>>, code |-> 0]
    ELSE IF exc = "Exception" THEN [lines |-> <<[k |-> "unexpected_error"]>>, code |-> 0]
    ELSE [lines |-> <<>>, code |-> 1]

\* The try/except of __main__: what it prints and the exit code, by the kind of
\* exception that leaves generate_dashboard.  sys.exit raises SystemExit, which is
\* neither a KeyboardInterrupt nor an Exception.
TopLevel(exc) ==
    IF exc = "KeyboardInterrupt" THEN [lines |-> <<[k |-> "cancelled"]>>, code |-> 0]
    ELSE IF exc = "Exception" THEN [lines |-> <<[k |-> "unexpected_error"]>>, code |-> 1]
    ELSE [lines |-> <<>>, code |-> 1]

Raise(printed, exc) ==
    /\ out' = printed \o TopLevel(exc).lines
    /\ exitCode' = <<TopLevel(exc).code>>
    /\ pc' = "exit"
    /\ qi' = qi

\* Variant of OnConnectError that raises an ordinary exception instead of sys.exit(1).
OnConnectErrorRaising ==
    [lines |-> <<[k |-> "connection_failed"], [k |-> "setup_hint"]>>, exc |-> "Exception"]

\* connect_db's except psycopg2.Error branch.
OnConnectError == [lines |-> <<[k |-> "connection_failed"], [k |-> "setup_hint"]>>, exc |-> "SystemExit"]

\* generate_dashboard up to and including conn = connect_db().
ConnectDb ==
    /\ pc = "connect"
    /\ attempts' = attempts + 1
    /\ LET banner == <<[k |-> "banner"], [k |-> "generated_at"]>>
       IN  IF db.connOk
           THEN /\ conn' = "open"
                /\ out' = out \o banner
                /\ pc' = "query"
                /\ UNCHANGED <<qi, exitCode>>
           ELSE /\ conn' = conn
                /\ Raise(out \o banner \o OnConnectError.lines, OnConnectError.exc)
    /\ UNCHANGED <<db, txn, closes, executed>>
    /\ UNCHANGED erdVars

\* Variant of Advance that goes from the last section to the closing prints
\* without conn.close().
AdvanceSkippingClose ==
    /\ IF qi < Len(Queries) THEN qi' = qi + 1 /\ pc' = pc
                            ELSE qi' = qi /\ pc' = "tips"
    /\ exitCode' = exitCode

\* The statement following the section of Queries[qi].
Advance ==
    /\ IF qi < Len(Queries) THEN qi' = qi + 1 /\ pc' = pc
                            ELSE qi' = qi /\ pc' = "close"
    /\ exitCode' = exitCode

\* One section: the headers printed before the call, the call r of execute_query,
\* then the formatting fmts of the rows it returned.
Section(q, headers, r, fmts) ==
    /\ pc = "query"
    /\ Queries[qi] = q
    /\ executed' = Append(executed, [q |-> q, conn |-> conn, ok |-> ~QueryRaises(q)])
    /\ txn' = TxnAfter(q)
    /\ LET printed == out \o headers \o r.lines
       IN  IF r.raised THEN Raise(printed, "Exception")
           ELSE \E f \in fmts :
                    IF f.raised THEN Raise(printed \o f.lines, "Exception")
                    ELSE out' = printed \o f.lines /\ Advance
    /\ UNCHANGED <<db, conn, attempts, closes>>
    /\ UNCHANGED erdVars

ActiveUsers ==
    LET r == execute_query("Active users", OneRow("count", SqlActiveUsers(db)))
    IN  Section("Active users", <<Header("Key Metrics Overview")>>, r,
                CountSection("Active Users", r.rows))

PaidSubscribers ==
    LET r == execute_query("Paid subscribers", OneRow("count", SqlPaidSubscribers(db)))
    IN  Section("Paid subscribers", <<>>, r, CountSection("Paid Subscribers", r.rows))

CurrentMRR ==
    LET r == execute_query("Current MRR", OneRow("total_mrr", SqlTotalMrr(db)))
    IN  Section("Current MRR", <<>>, r, MrrSection(r.rows))

ConversionRate ==
    LET r == execute_query("Conversion rate", OneRow("conversion_rate", SqlConversionRate(db)))
    IN  Section("Conversion rate", <<>>, r, ConversionSection(r.rows))

PlanRevenue ==
    LET r == execute_query("Plan revenue", db.planRows)
    IN  Section("Plan revenue", <<Header("Revenue by Plan (Last 30 Days)")>>, r,
                PlanLines(r.rows))

UserGrowth ==
    LET r == execute_query("User growth", db.growthRows)
    IN  Section("User growth", <<Header("User Growth (Last 6 Months)")>>, r,
                GrowthLines(r.rows))

ChannelPerformance ==
    LET r == execute_query("Channel performance", db.channelRows)
    IN  Section("Channel performance", <<Header("Top Performing Acquisition Channels")>>, r,
                ChannelLines(r.rows))

RecentSignups ==
    LET r == execute_query("Recent signups", OneRow("count", db.counts["Recent signups"]))
    IN  Section("Recent signups", <<Header("Recent Activity (Last 7 Days)")>>, r,
                CountSection("New Signups", r.rows))

RecentUpgrades ==
    LET r == execute_query("Recent upgrades", OneRow("count", db.counts["Recent upgrades"]))
    IN  Section("Recent upgrades", <<>>, r, CountSection("New Paid Subscriptions", r.rows))

RecentChurn ==
    LET r == execute_query("Recent churn", OneRow("count", db.counts["Recent churn"]))
    IN  Section("Recent churn", <<>>, r, CountSection("Cancelled Subscriptions", r.rows))

ProjectsCreated ==
    LET r == execute_query("Projects created", OneRow("count", db.counts["Projects created"]))
    IN  Section("Projects created", <<>>, r, CountSection("Projects Created", r.rows))

\* conn.close()
CloseConn ==
    /\ pc = "close"
    /\ conn' = "closed"
    /\ closes' = closes + 1
    /\ pc' = "tips"
    /\ UNCHANGED <<db, qi, txn, attempts, executed, out, exitCode>>
    /\ UNCHANGED erdVars

\* The closing prints; generate_dashboard returns and the process ends with code 0.
PrintSuccess ==
    /\ pc = "tips"
    /\ out' = out \o <<[k |-> "success"], [k |-> "tips"]>>
    /\ exitCode' = <<0>>
    /\ pc' = "exit"
    /\ UNCHANGED <<db, qi, conn, txn, attempts, closes, executed>>
    /\ UNCHANGED erdVars

\* SIGINT delivered while generate_dashboard runs.
KeyboardInterrupt ==
    /\ pc \in {"connect", "query", "close", "tips"}
    /\ Raise(out, "KeyboardInterrupt")
    /\ UNCHANGED <<db, conn, txn, attempts, closes, executed>>
    /\ UNCHANGED erdVars

(***************************************************************************)
(*                 generate_erd.py : generate_dot_content                  *)
(* Strings that the code takes apart are sequences of characters.          *)
(***************************************************************************)
MaxTables == 2
MaxRels == 2

Arrow == <<"-", ">">>

\* The name of the i-th table of a schema, in ascending order of i.
TableName(i) == <<"t", ToString(i)>>

\* One row of the query of generate_erd_sql: (type, name, details).
TableRow(i) == <<"TABLES", TableName(i), <<"id uuid NOT NULL PK">> >>
\* from_table || '->' || to_table as name
RelRow(rel) == <<"RELATIONSHIPS", TableName(rel[1]) \o Arrow \o TableName(rel[2]), <<"c->id">> >>

\* The rows of a schema with tables 1..n and the foreign keys rels, in the order
\* ORDER BY type, name gives them.
SchemaRows(n, rels) ==
    [i \in 1..Len(rels) |-> RelRow(rels[i])] \o [i \in 1..n |-> TableRow(i)]

Sorted(rels) ==
    \A i \in 1..(Len(rels) - 1) :
        \/ rels[i][1] < rels[i + 1][1]
        \/ rels[i][1] = rels[i + 1][1] /\ rels[i][2] <= rels[i + 1][2]

\* The schemas explored: every foreign key names tables of the schema.
ValidSchema(sc) ==
    \A i \in 1..Len(sc.rels) : sc.rels[i][1] \in 1..sc.tables /\ sc.rels[i][2] \in 1..sc.tables

Schemas ==
    {sc \in {[tables |-> n, rels |-> r] :
                n \in 0..MaxTables,
                r \in {x \in SeqsUpTo((1..MaxTables) \X (1..MaxTables), MaxRels) : Sorted(x)}} :
        ValidSchema(sc)}

\* Whether sep occurs in s at position i.
OccursAt(s, sep, i) ==
    /\ i + Len(sep) - 1 <= Len(s)
    /\ \A j \in 1..Len(sep) : s[i + j - 1] = sep[j]

\* str.split(sep): the pieces of s between the non-overlapping occurrences of sep,
\* found left to right.
RECURSIVE Split(_, _)
Split(s, sep) ==
    LET hits == {i \in 1..Len(s) : OccursAt(s, sep, i)}
    IN  IF hits = {} THEN <<s>>
        ELSE LET i == CHOOSE h \in hits : \A g \in hits : h <= g
             IN  <<SubSeq(s, 1, i - 1)>> \o Split(SubSeq(s, i + Len(sep), Len(s)), sep)

\* if len(rel_parts) == 2
IsRelationship(rel_parts) == Len(rel_parts) = 2

\* The statement appended to tables for a TABLES row.
NodeStmt(row) == [k |-> "node", id |-> row[2], label |-> <<row[2], row[3]>>]

\* Variant of EdgeStmts that filters out a table's reference to itself.
EdgeStmtsNoSelfLoops(row) ==
    LET rel_parts == Split(row[2], Arrow)
    IN  IF IsRelationship(rel_parts) /\ rel_parts[1] # rel_parts[2]
        THEN <<[k |-> "edge", from |-> rel_parts[1], to |-> rel_parts[2]]>>
        ELSE <<>>

\* The statements appended to relationships for a RELATIONSHIPS row.
EdgeStmts(row) ==
    LET rel_parts == Split(row[2], Arrow)
    IN  IF IsRelationship(rel_parts)
        THEN <<[k |-> "edge", from |-> rel_parts[1], to |-> rel_parts[2]]>>
        ELSE <<>>

RECURSIVE TableStmts(_)
TableStmts(rows) ==
    IF rows = <<>> THEN <<>>
    ELSE (IF Head(rows)[1] = "TABLES" THEN <<NodeStmt(Head(rows))>> ELSE <<>>)
            \o TableStmts(Tail(rows))

RECURSIVE RelationshipStmts(_)
RelationshipStmts(rows) ==
    IF rows = <<>> THEN <<>>
    ELSE (IF Head(rows)[1] = "RELATIONSHIPS" THEN EdgeStmts(Head(rows)) ELSE <<>>)
            \o RelationshipStmts(Tail(rows))

Preamble ==
    << [k |-> "attr", of |-> "graph", text |-> "rankdir=TB"],
       [k |-> "attr", of |-> "node", text |-> "fontname=Arial, fontsize=10"],
       [k |-> "attr", of |-> "edge", text |-> "fontname=Arial, fontsize=8"],
       [k |-> "attr", of |-> "node", text |-> "shape=record, style=filled, fillcolor=lightblue"] >>

EdgeStyle == <<[k |-> "attr", of |-> "edge", text |-> "arrowhead=crow"]>>

\* generate_dot_content(schema_data): the statements of the digraph it returns.
generate_dot_content(rows) ==
    Preamble \o TableStmts(rows) \o EdgeStyle \o RelationshipStmts(rows)

(***************************************************************************)
(*            generate_erd.py : the graph embedded in main                 *)
(***************************************************************************)
Node(name, columns) == [k |-> "node", id |-> name, label |-> <<name, columns>>]
Edge(from, to, label) == [k |-> "edge", from |-> from, to |-> to, label |-> label]

MainNodes ==
    << Node("users", <<"id", "email", "created_at", "activated_at", "last_login_at", "status",
                       "signup_channel", "country_code", "utm_source", "utm_medium",
                       "utm_campaign", "referred_by_user_id">>),
       Node("plans", <<"id", "name", "price_monthly", "price_annual", "max_projects",
                       "max_team_members", "features">>),
       Node("subscriptions", <<"id", "user_id", "plan_id", "status", "billing_cycle",
                               "started_at", "ended_at", "cancelled_at", "mrr", "created_at">>),
       Node("projects", <<"id", "user_id", "name", "created_at", "completed_at", "is_active">>),
       Node("tasks", <<"id", "project_id", "user_id", "title", "created_at", "completed_at",
                       "is_completed">>),
       Node("team_memberships", <<"id", "inviter_user_id", "invited_user_id", "project_id",
                                  "invited_at", "accepted_at", "role">>),
       Node("revenue_events", <<"id", "user_id", "subscription_id", "amount", "event_type",
                                "occurred_at", "stripe_payment_id">>),
       Node("user_activities", <<"id", "user_id", "activity_type", "metadata", "occurred_at">>),
       Node("funnel_events", <<"id", "user_id", "event_name", "occurred_at", "session_id",
                               "page_url">>) >>

MainEdges ==
    << Edge("subscriptions", "users", "user_id"),
       Edge("subscriptions", "plans", "plan_id"),
       Edge("projects", "users", "user_id"),
       Edge("tasks", "projects", "project_id"),
       Edge("tasks", "users", "user_id"),
       Edge("team_memberships", "users", "inviter_user_id"),
       Edge("team_memberships", "users", "invited_user_id"),
       Edge("team_memberships", "projects", "project_id"),
       Edge("revenue_events", "users", "user_id"),
       Edge("revenue_events", "subscriptions", "subscription_id"),
       Edge("user_activities", "users", "user_id"),
       Edge("funnel_events", "users", "user_id"),
       Edge("users", "users", "referred_by_user_id") >>

\* The dot_content literal of main.
MainDotContent == Preamble \o MainNodes \o EdgeStyle \o MainEdges

(***************************************************************************)
(*                  generate_erd.py : main and its steps                   *)
(***************************************************************************)
\* How a subprocess.run of the renderer can end: exit status 0, a non-zero exit
\* status, or FileNotFoundError because there is no 'dot' on the path.
Outcomes == {"ok", "nonzero", "notfound"}

Envs ==
    [psycopg2 : BOOLEAN, version : Outcomes, writable : BOOLEAN, png : Outcomes, svg : Outcomes]

DotFile == "schema_diagram.dot"
PngFile == "schema_diagram.png"
SvgFile == "schema_diagram.svg"
FileNames == {DotFile, PngFile, SvgFile}

\* Variant of HasGraphviz that looks only at whether 'dot' could be started.
HasGraphvizIgnoringStatus(o) == o # "notfound"

\* check_dependencies, the Graphviz part: has_graphviz after 'dot -V' ended with o.
HasGraphviz(o) == o = "ok"

\* check_dependencies(): what it prints and returns.
check_dependencies ==
    [lines |->
        (IF env.psycopg2 THEN <<[k |-> "psycopg2_found"]>>
         ELSE <<[k |-> "psycopg2_missing"], [k |-> "static_erd_note"]>>)
        \o (IF HasGraphviz(env.version) THEN <<[k |-> "graphviz_found"]>>
            ELSE <<[k |-> "graphviz_install_hint"]>>),
     result |-> HasGraphviz(env.version)]

\* main, from its start to the dependency gate.
CheckDependencies ==
    /\ epc = "check"
    /\ calls' = Append(calls, <<"dot", "-V">>)
    /\ LET c == check_dependencies
           printed == eout \o <<[k |-> "checking"]>> \o c.lines
       IN  IF ~c.result
           THEN /\ eout' = printed \o <<[k |-> "cannot_generate"]>>
                /\ eexit' = <<1>>
                /\ epc' = "exit"
           ELSE /\ eout' = printed \o <<[k |-> "generating"]>>
                /\ eexit' = eexit
                /\ epc' = "write"
    /\ UNCHANGED <<env, schema_data, dot_content, files>>
    /\ UNCHANGED dashVars

\* with open('schema_diagram.dot', 'w') as f: f.write(dot_content); an OSError is
\* not caught and ends the process with a traceback and status 1.
WriteDot ==
    /\ epc = "write"
    /\ IF env.writable
       THEN /\ files' = [files EXCEPT ![DotFile] = Some(MainDotContent)]
            /\ eout' = eout \o <<[k |-> "generated", file |-> DotFile]>>
            /\ eexit' = eexit
            /\ epc' = "png"
       ELSE /\ files' = files
            /\ eout' = eout
            /\ eexit' = <<1>>
            /\ epc' = "exit"
    /\ UNCHANGED <<env, schema_data, dot_content, calls>>
    /\ UNCHANGED dashVars

\* Variant of OnRenderError whose handlers print and return without sys.exit(1).
OnRenderErrorNoExit(o) ==
    IF o = "nonzero"
    THEN [lines |-> <<[k |-> "error_generating"], [k |-> "install_reminder"]>>, code |-> 0]
    ELSE [lines |-> <<[k |-> "dot_not_found"]>>, code |-> 0]

\* The except clauses of main's try: what is printed and the exit status.
OnRenderError(o) ==
    IF o = "nonzero"
    THEN [lines |-> <<[k |-> "error_generating"], [k |-> "install_reminder"]>>, code |-> 1]
    ELSE [lines |-> <<[k |-> "dot_not_found"]>>, code |-> 1]

\* subprocess.run(['dot', flag, 'schema_diagram.dot', '-o', target], check=True) ending
\* with o, then the statements up to the next call; done are the prints and the
\* position after a success.
Render(flag, target, o, donePrints, nextPc, doneExit) ==
    /\ calls' = Append(calls, <<"dot", flag, DotFile, "-o", target>>)
    /\ IF o = "ok"
       THEN /\ files' = [files EXCEPT ![target] = Some([format |-> flag, of |-> files[DotFile]])]
            /\ eout' = eout \o <<[k |-> "generated", file |-> target]>> \o donePrints
            /\ eexit' = doneExit
            /\ epc' = nextPc
       ELSE /\ files' = files
            /\ eout' = eout \o OnRenderError(o).lines
            /\ eexit' = <<OnRenderError(o).code>>
            /\ epc' = "exit"
    /\ UNCHANGED <<env, schema_data, dot_content>>
    /\ UNCHANGED dashVars

RenderPng ==
    /\ epc = "png"
    /\ Render("-Tpng", PngFile, env.png, <<>>, "svg", eexit)

RenderSvg ==
    /\ epc = "svg"
    /\ Render("-Tsvg", SvgFile, env.svg, <<[k |-> "success"], [k |-> "files_created"]>>,
              "exit", <<0>>)

\* A call of generate_dot_content on the rows of a schema.
GenerateDotContent ==
    /\ IsNull(dot_content)
    /\ epc # "idle"
    /\ dot_content' = Some(generate_dot_content(schema_data))
    /\ UNCHANGED <<env, schema_data, epc, files, calls, eout, eexit>>
    /\ UNCHANGED dashVars

(***************************************************************************)
(*                           Specifications                                *)
(***************************************************************************)
DashIdle ==
    /\ db = DefaultDb
    /\ pc = "idle" /\ qi = 1
    /\ conn = "none" /\ txn = "idle"
    /\ attempts = 0 /\ closes = 0
    /\ executed = <<>> /\ out = <<>> /\ exitCode = <<>>

ErdIdle ==
    /\ env = [psycopg2 |-> TRUE, version |-> "ok", writable |-> TRUE, png |-> "ok", svg |-> "ok"]
    /\ schema_data = <<>>
    /\ dot_content = Null
    /\ epc = "idle"
    /\ files = [f \in FileNames |-> Null]
    /\ calls = <<>> /\ eout = <<>> /\ eexit = <<>>

\* python quick_dashboard.py against one of the databases.
Init ==
    /\ db \in Databases
    /\ pc = "connect" /\ qi = 1
    /\ conn = "none" /\ txn = "idle"
    /\ attempts = 0 /\ closes = 0
    /\ executed = <<>> /\ out = <<>> /\ exitCode = <<>>
    /\ ErdIdle

Next ==
    \/ ConnectDb
    \/ ActiveUsers \/ PaidSubscribers \/ CurrentMRR \/ ConversionRate
    \/ PlanRevenue \/ UserGrowth \/ ChannelPerformance
    \/ RecentSignups \/ RecentUpgrades \/ RecentChurn \/ ProjectsCreated
    \/ CloseConn
    \/ PrintSuccess
    \/ KeyboardInterrupt

Spec == Init /\ [][Next]_vars

\* python generate_erd.py in an empty working directory, and generate_dot_content
\* on the rows of one of the schemas.
InitErd ==
    /\ env \in Envs
    /\ \E sc \in Schemas : schema_data = SchemaRows(sc.tables, sc.rels)
    /\ dot_content = Null
    /\ epc = "check"
    /\ files = [f \in FileNames |-> Null]
    /\ calls = <<>> /\ eout = <<>> /\ eexit = <<>>
    /\ DashIdle

NextErd ==
    \/ CheckDependencies
    \/ WriteDot
    \/ RenderPng
    \/ RenderSvg
    \/ GenerateDotContent

SpecErd == InitErd /\ [][NextErd]_vars

(***************************************************************************)
(*                    Properties of quick_dashboard.py                     *)
(***************************************************************************)
HasLine(kind) == \E i \in 1..Len(out) : out[i].k = kind

Diagnosed(q) == \E i \in 1..Len(out) : out[i].k = "query_failed" /\ out[i].q = q

Headers == {out[i].title : i \in {j \in 1..Len(out) : out[j].k = "header"}}

MetricValues(label) ==
    {out[i].value : i \in {j \in 1..Len(out) : out[j].k = "metric" /\ out[j].label = label}}

AllHeaders ==
    {"Key Metrics Overview", "Revenue by Plan (Last 30 Days)", "User Growth (Last 6 Months)",
     "Top Performing Acquisition Channels", "Recent Activity (Last 7 Days)"}

\* The descriptions of the queries issued so far, in order.
ExecutedNames == [i \in 1..Len(executed) |-> executed[i].q]

\* No grouping column of a listing is NULL: formatting the rows cannot raise.
RowsClean(d) ==
    /\ \A i \in 1..Len(d.planRows) : ~IsNull(d.planRows[i].plan)
    /\ \A i \in 1..Len(d.growthRows) : ~IsNull(d.growthRows[i].month)
    /\ \A i \in 1..Len(d.channelRows) : ~IsNull(d.channelRows[i].signup_channel)

\* C1: when a query fails execute_query prints a diagnostic naming it and the
\* pipeline goes on: every later query is executed on the same open connection
\* and, if the server would accept it on its own, still returns its real rows.
C1_OneBadQueryKeepsTheRest ==
    \A i \in 1..Len(executed) :
        /\ executed[i].conn = "open"
        /\ ~executed[i].ok => Diagnosed(executed[i].q)
        /\ executed[i].q \notin db.fails => executed[i].ok

\* C4: in a run that connects and ends without an uncaught error the connection is
\* open while every query runs and is closed exactly once, after the last query
\* (Projects created) and before the success message, however many queries failed;
\* no query is executed after the close.
C4_ClosedOnceAfterLastQuery ==
    /\ closes <= 1
    /\ \A i \in 1..Len(executed) : executed[i].conn = "open"
    /\ pc \in {"query", "close"} => conn = "open" /\ closes = 0
    /\ conn = "closed" => closes = 1 /\ ExecutedNames = Queries
    /\ HasLine("success") => conn = "closed" /\ closes = 1 /\ ExecutedNames = Queries

C4_Witness ==
    /\ pc = "exit" /\ HasLine("success")
    /\ closes = 1 /\ conn = "closed"
    /\ Cardinality(db.fails) >= 2

\* C5: query failures never change the exit code: whatever subset of the queries the
\* server rejects (all of them included), a connected run that is not interrupted
\* prints every section header and ends with the success message and exit code 0.
C5_FailuresKeepExitZero ==
    (db.connOk /\ RowsClean(db) /\ ~HasLine("cancelled")) =>
        /\ ~HasLine("unexpected_error")
        /\ pc = "exit" => exitCode = <<0>> /\ HasLine("success") /\ Headers = AllHeaders
        /\ \A i \in 1..Len(executed) : (~executed[i].ok) => Diagnosed(executed[i].q)

C5_Witness ==
    /\ pc = "exit" /\ exitCode = <<0>>
    /\ db.fails = QuerySet
    /\ \A i \in 1..Len(Queries) : Diagnosed(Queries[i])

\* The cycles the claim speaks of.
KnownCycles(d) ==
    \A i \in 1..Len(d.subs) : d.subs[i].billing_cycle \in {Some("monthly"), Some("annual")}

\* The monthly total the claim describes, in twelfths of a cent: A / 12 for an active
\* annual subscription, A for an active monthly one, nothing for the others.
RECURSIVE ClaimedTwelfths(_)
ClaimedTwelfths(subs) ==
    IF subs = <<>> THEN 0
    ELSE (IF Head(subs).status # "active" THEN 0
          ELSE IF Head(subs).billing_cycle = Some("annual") THEN Head(subs).mrr
          ELSE 12 * Head(subs).mrr)
         + ClaimedTwelfths(Tail(subs))

\* The twelfths the Current MRR section reports on: 0 when the query failed.
ReportedTwelfths == IF executed[3].ok THEN ClaimedTwelfths(db.subs) ELSE 0

MrrReported == Len(executed) >= 3 /\ KnownCycles(db)

\* C7 as stated: the reported monthly figure is the sum of A / 12 per active annual
\* and A per active monthly subscription (0 when none or the query fails), and the
\* reported annual figure is exactly 12 times the reported monthly figure.
C7_ArrIsTwelveTimesReportedMrr ==
    MrrReported =>
        \E m \in RoundDiv(ReportedTwelfths, 12) :
            /\ MetricValues("Monthly Recurring Revenue") = {m}
            /\ MetricValues("Annual Recurring Revenue") = {12 * m}

\* C7 amended: the reported monthly figure is that sum rounded to cents, and the
\* reported annual figure is 12 times the unrounded sum, rounded to cents on its own:
\* it is within 6 cents of 12 times the reported monthly figure.
C7_ArrIsTwelveTimesUnroundedMrr ==
    MrrReported =>
        \E m \in RoundDiv(ReportedTwelfths, 12) :
            /\ MetricValues("Monthly Recurring Revenue") = {m}
            /\ MetricValues("Annual Recurring Revenue") = {ReportedTwelfths}
            /\ 12 * m - ReportedTwelfths \in -6..6

C7_Witness ==
    /\ MrrReported /\ executed[3].ok
    /\ \E i \in 1..Len(db.subs) :
            db.subs[i].status = "active" /\ db.subs[i].billing_cycle = Some("annual")
    /\ \E i \in 1..Len(db.subs) : db.subs[i].status = "cancelled"
    /\ MetricValues("Monthly Recurring Revenue") = {83}
    /\ MetricValues("Annual Recurring Revenue") = {1000}

\* Users holding an active subscription to a plan other than the free one.
PayingUsers ==
    {u \in 1..Len(db.users) :
        \E i \in 1..Len(db.subs) :
            /\ db.subs[i].user_id = u
            /\ db.subs[i].status = "active"
            /\ db.subs[i].plan_id # 1}

\* C8: with zero users the conversion rate is not an error: the zero denominator
\* gives a null rate, the null (or a missing row) is replaced by 0 and the line
\* prints 0.00%; with users, the rate of a returned row is printed as
\* paid_users * 100 / total_users with two decimals.
C8_ZeroUsersPrintZeroRate ==
    Len(executed) >= 4 =>
        /\ (executed[4].ok /\ Len(db.users) = 0) =>
                MetricValues("Free-to-Paid Conversion") = {0} /\ ~Diagnosed("Conversion rate")
        /\ ~executed[4].ok => MetricValues("Free-to-Paid Conversion") = {0}
        /\ (executed[4].ok /\ Len(db.users) > 0) =>
                \E r \in RoundDiv(Cardinality(PayingUsers) * 100 * 100, Len(db.users)) :
                    MetricValues("Free-to-Paid Conversion") = {r}
        /\ Len(executed) = 4 => ~HasLine("unexpected_error")

C8_Witness ==
    /\ Len(executed) >= 4 /\ executed[4].ok
    /\ Len(db.users) = 0
    /\ MetricValues("Free-to-Paid Conversion") = {0}

\* C9: a refused connection prints the error and the remediation hint and ends the
\* process with a non-zero code after exactly one attempt; no query runs, no
\* section is printed, and the generic handler of __main__ does not step in.
C9_ConnectionFailureExits ==
    /\ attempts <= 1
    /\ (~db.connOk /\ attempts > 0) =>
            /\ pc = "exit"
            /\ exitCode # <<>> /\ exitCode # <<0>>
            /\ HasLine("connection_failed") /\ HasLine("setup_hint")
            /\ executed = <<>> /\ Headers = {}
            /\ ~HasLine("unexpected_error") /\ ~HasLine("cancelled")
            /\ conn = "none"

C9_Witness == ~db.connOk /\ pc = "exit" /\ attempts = 1 /\ exitCode = <<1>>

\* C10 as stated: an error other than a database error raised after the connection
\* was opened is caught at the top level, a generic message is printed and the exit
\* code is non-zero; on that path and on the interrupt path the remaining queries
\* are not executed and the connection is never explicitly closed before exit.
C10_NeverClosedOnErrorOrInterrupt ==
    /\ HasLine("unexpected_error") =>
            /\ pc = "exit" /\ exitCode # <<>> /\ exitCode # <<0>>
            /\ closes = 0 /\ conn = "open"
            /\ Len(executed) < Len(Queries)
    /\ HasLine("cancelled") => pc = "exit" /\ closes = 0 /\ conn # "closed"

\* C10 amended: the same, for an error or an interrupt that arrives before
\* conn.close() is reached; an interrupt during the closing prints finds all the
\* queries executed and the connection already closed.
C10_NeverClosedBeforeCloseIsReached ==
    /\ HasLine("unexpected_error") =>
            /\ pc = "exit" /\ exitCode # <<>> /\ exitCode # <<0>>
            /\ closes = 0 /\ conn = "open"
            /\ Len(executed) < Len(Queries)
    /\ HasLine("cancelled") =>
            /\ pc = "exit"
            /\ ~HasLine("success")
            /\ Len(executed) < Len(Queries) => closes = 0 /\ conn # "closed"
            /\ closes > 0 => ExecutedNames = Queries

C10_Witness ==
    /\ HasLine("unexpected_error")
    /\ conn = "open" /\ closes = 0
    /\ Len(executed) = 5 /\ executed[5].ok
    /\ exitCode = <<1>>

(***************************************************************************)
(*                     Properties of generate_erd.py                       *)
(***************************************************************************)
ErdPrinted(kind) == \E i \in 1..Len(eout) : eout[i].k = kind

PngCall == <<"dot", "-Tpng", "schema_diagram.dot", "-o", "schema_diagram.png">>
SvgCall == <<"dot", "-Tsvg", "schema_diagram.dot", "-o", "schema_diagram.svg">>

IsRenderCall(c) == c[2] # "-V"
RenderCalls == SelectSeq(calls, IsRenderCall)

IsNodeStmt(st) == st.k = "node"
IsEdgeStmt(st) == st.k = "edge"
NodeIds(g) == {g[i].id : i \in {j \in 1..Len(g) : IsNodeStmt(g[j])}}
Edges(g) == SelectSeq(g, IsEdgeStmt)
SelfEdges(g) == {i \in 1..Len(g) : IsEdgeStmt(g[i]) /\ g[i].from = g[i].to}

IsTableRow(row) == row[1] = "TABLES"
IsRelationshipRow(row) == row[1] = "RELATIONSHIPS"

\* The foreign keys of the input whose table references itself.
SelfRelationships(rows) ==
    {i \in 1..Len(rows) :
        /\ IsRelationshipRow(rows[i])
        /\ \E t \in {TableName(n) : n \in 1..(MaxTables + 1)} : rows[i][2] = t \o Arrow \o t}

\* C2: when 'dot -V' is not found or ends with a non-zero status, main prints the
\* installation hint and exits with a non-zero code; no 'dot -Tpng' or 'dot -Tsvg'
\* is run and none of the three output files is written.
C2_MissingRendererStops ==
    (epc \notin {"idle", "check"} /\ env.version # "ok") =>
        /\ epc = "exit"
        /\ eexit # <<>> /\ eexit # <<0>>
        /\ ErdPrinted("graphviz_install_hint")
        /\ calls = << <<"dot", "-V">> >>
        /\ \A f \in FileNames : IsNull(files[f])

C2_Witness ==
    /\ epc = "exit" /\ env.version = "notfound" /\ eexit = <<1>>
    /\ ErdPrinted("graphviz_install_hint") /\ ErdPrinted("cannot_generate")

\* C3: after the dependency check passes main writes the graph description and then
\* runs the renderer at most twice, PNG then SVG, the SVG only after the PNG
\* succeeded; a failed run exits non-zero, leaving the PNG and the graph description
\* in place when only the SVG failed; exit code 0 needs both runs to succeed.
C3_RenderPngThenSvg ==
    /\ RenderCalls \in {<<>>, <<PngCall>>, <<PngCall, SvgCall>>}
    /\ RenderCalls # <<>> => env.version = "ok" /\ ~IsNull(files[DotFile])
    /\ Len(RenderCalls) = 2 => env.png = "ok" /\ ~IsNull(files[PngFile])
    /\ (Len(RenderCalls) >= 1 /\ env.png # "ok") =>
            epc = "exit" /\ eexit # <<>> /\ eexit # <<0>> /\ Len(RenderCalls) = 1
    /\ (Len(RenderCalls) = 2 /\ env.svg # "ok") =>
            /\ epc = "exit" /\ eexit # <<>> /\ eexit # <<0>>
            /\ files[DotFile] = Some(MainDotContent)
            /\ ~IsNull(files[PngFile])
            /\ IsNull(files[SvgFile])
    /\ eexit = <<0>> =>
            /\ env.png = "ok" /\ env.svg = "ok"
            /\ RenderCalls = <<PngCall, SvgCall>>
            /\ \A f \in FileNames : ~IsNull(files[f])

C3_Witness ==
    /\ epc = "exit" /\ eexit = <<1>>
    /\ env.png = "ok" /\ env.svg = "nonzero"
    /\ RenderCalls = <<PngCall, SvgCall>>
    /\ ~IsNull(files[PngFile]) /\ ~IsNull(files[DotFile])

\* The graph g declares nodes nodeCount times and edges edgeCount times, and every
\* edge joins declared nodes.
WellFormedGraph(g, nodeCount, edgeCount) ==
    /\ Len(SelectSeq(g, IsNodeStmt)) = nodeCount
    /\ Cardinality(NodeIds(g)) = nodeCount
    /\ Len(Edges(g)) = edgeCount
    /\ \A i \in 1..Len(g) : IsEdgeStmt(g[i]) => g[i].from \in NodeIds(g) /\ g[i].to \in NodeIds(g)

\* C6: for a schema of N tables and M relationships among them the graph description
\* has exactly N node declarations and M edge declarations, every edge joining
\* declared nodes, and a self-referential relationship gives one edge from a node to
\* itself; so for generate_dot_content on its rows and for the graph written by main
\* (9 tables, 13 relationships, users -> users once).
C6_NodesAndEdgesMatchSchema ==
    /\ ~IsNull(dot_content) =>
            /\ WellFormedGraph(Val(dot_content), Len(SelectSeq(schema_data, IsTableRow)),
                               Len(SelectSeq(schema_data, IsRelationshipRow)))
            /\ Cardinality(SelfEdges(Val(dot_content))) = Cardinality(SelfRelationships(schema_data))
    /\ ~IsNull(files[DotFile]) =>
            /\ WellFormedGraph(Val(files[DotFile]), 9, 13)
            /\ \E i \in 1..Len(Val(files[DotFile])) :
                    SelfEdges(Val(files[DotFile])) = {i} /\ Val(files[DotFile])[i].from = "users"

C6_Witness ==
    /\ ~IsNull(dot_content)
    /\ SelfRelationships(schema_data) # {}
    /\ SelfEdges(Val(dot_content)) # {}
    /\ Len(Edges(Val(dot_content))) = 2
    /\ ~IsNull(files[DotFile])

=============================================================================
